---- MODULE Spec2Model ----
(***************************************************************************)
(* Model of the identity-resolution and lineage-extraction engine of       *)
(* xml_parser_final_json.py: IDGenerator, the fragment builders (db_tree,  *)
(* transformation_graph, mapping_graph, workflow_graph), extract_lineage,  *)
(* merge_dicts and the orchestrator parse_xml.                             *)
(*                                                                         *)
(* Python values.  A dict is PyDict(f) with f a function from keys to      *)
(* values, an int is PyInt(n), a str stored as a dict value is PyStr(s),   *)
(* None stored as a value is PyNone: isinstance(v, dict) is v.type =       *)
(* "dict".  Attribute values and dict keys are strings; an attribute that  *)
(* Element.get() does not find is the marker None.  Dict equality ignores  *)
(* insertion order, as Python's does.                                      *)
(***************************************************************************)
EXTENDS Integers, Sequences, FiniteSets, TLC

VARIABLES
    id_gen,               \* the IDGenerator: [counter, id_map]
    seen,                 \* keys handed to get_id so far, in first-encounter order
    call,                 \* the last direct call: operation, arguments, result
    doc,                  \* the input file of parse_xml
    pc,                   \* parse_xml's position
    idx,                  \* index of the next element of the running loop
    repo_name,            \* parse_xml local
    mappings,             \* parse_xml local: root.findall(".//MAPPING")
    db_objects,           \* parse_xml local
    informatica_objects,  \* parse_xml local
    lineage,              \* parse_xml local
    instance_types,       \* parse_xml local (defaultdict(dict))
    returned,             \* what parse_xml handed to its caller, once it has
    raised,               \* the exception that reached parse_xml's caller
    logged                \* the logging.error line of the except clause that ran

vars == <<id_gen, seen, call, doc, pc, idx, repo_name, mappings, db_objects,
          informatica_objects, lineage, instance_types, returned, raised,
          logged>>

parseVars == <<doc, pc, idx, repo_name, mappings, db_objects,
               informatica_objects, lineage, instance_types, returned, raised,
               logged>>

-----------------------------------------------------------------------------
(* XML_NAMES *)

SOURCE == "SOURCE"
TARGET == "TARGET"
TRANSFORMATION == "TRANSFORMATION"
TRANSFORMFIELD == "TRANSFORMFIELD"

\* What Element.get(name) returns for an attribute the element does not carry.
None == "<None>"

-----------------------------------------------------------------------------
(* Python values *)

PyNone == [type |-> "NoneType"]
PyInt(n) == [type |-> "int", value |-> n]
PyStr(s) == [type |-> "str", value |-> s]
PyDict(f) == [type |-> "dict", items |-> f]

\* The value of an attribute read with Element.get, as a Python object.
PyAttr(s) == IF s = None THEN PyNone ELSE PyStr(s)

EmptyItems == [k \in {} |-> PyNone]
EmptyDict == PyDict(EmptyItems)

isinstance_dict(v) == v.type = "dict"

\* d.get(key) and d.get(key, default) of a dict d.
dict_get(d, key, default) ==
    IF key \in DOMAIN d.items THEN d.items[key] ELSE default

\* d[key] = value
dict_set(d, key, value) ==
    PyDict([k \in (DOMAIN d.items) \cup {key} |->
              IF k = key THEN value ELSE d.items[k]])

\* bool(v) for the values an id lookup returns
Truthy(v) == v.type = "int" /\ v.value # 0

-----------------------------------------------------------------------------
(* IDGenerator *)

NewIDGenerator == [counter |-> 0, id_map |-> [k \in {} |-> 0]]

\* A get_id that does not memoise: every call allocates.
get_id_fresh(gen, object_type, object_name, field) ==
    LET key == <<object_type, object_name, field>>
        g == [counter |-> gen.counter + 1,
              id_map |-> [k \in (DOMAIN gen.id_map) \cup {key} |->
                            IF k = key THEN gen.counter + 1 ELSE gen.id_map[k]]]
    IN  [gen |-> g, ret |-> g.id_map[key]]

\* get_id: the generator after the call and the id returned.
get_id(gen, object_type, object_name, field) ==
    LET key == <<object_type, object_name, field>>
        g == IF key \notin DOMAIN gen.id_map
             THEN [counter |-> gen.counter + 1,
                   id_map |-> [k \in (DOMAIN gen.id_map) \cup {key} |->
                                 IF k = key THEN gen.counter + 1
                                 ELSE gen.id_map[k]]]
             ELSE gen
    IN  [gen |-> g, ret |-> g.id_map[key]]

\* A lookup written with get_id: a key that is absent is allocated.
get_id_if_exists_allocating(gen, object_type, object_name, field) ==
    LET r == get_id(gen, object_type, object_name, field)
    IN  [gen |-> r.gen, ret |-> PyInt(r.ret)]

\* get_id_if_exists: id_map.get(key), an int or None, and the generator as
\* the call leaves it.
get_id_if_exists(gen, object_type, object_name, field) ==
    LET key == <<object_type, object_name, field>>
    IN  [gen |-> gen,
         ret |-> IF key \in DOMAIN gen.id_map THEN PyInt(gen.id_map[key])
                 ELSE PyNone]

-----------------------------------------------------------------------------
(* xml.etree.ElementTree elements: a tag, string attributes, ordered children *)

Elem(tag, attrib, children) ==
    [tag |-> tag, attrib |-> attrib, children |-> children]

NoAttrib == [k \in {} |-> ""]

\* The Python value None where an Element is expected.
NoElement == Elem(None, NoAttrib, <<>>)

\* elem.get(name)
get(elem, name) ==
    IF name \in DOMAIN elem.attrib THEN elem.attrib[name] ELSE None

\* elem.findall(tag): the direct children with that tag, in document order.
findall(elem, tag) == SelectSeq(elem.children, LAMBDA c : c.tag = tag)

RECURSIVE Flatten(_)
Flatten(seqs) ==
    IF seqs = <<>> THEN <<>> ELSE Head(seqs) \o Flatten(Tail(seqs))

\* root.findall(".//tag"): every descendant with that tag, in document order.
RECURSIVE findall_descendants(_, _)
findall_descendants(elem, tag) ==
    Flatten([i \in 1..Len(elem.children) |->
               (IF elem.children[i].tag = tag THEN <<elem.children[i]>> ELSE <<>>)
               \o findall_descendants(elem.children[i], tag)])

\* root.find(".//tag"): the first such descendant, or None.
find_descendant(elem, tag) ==
    LET all == findall_descendants(elem, tag)
    IN  IF all = <<>> THEN NoElement ELSE Head(all)

-----------------------------------------------------------------------------
(* db_tree *)

\* A field loop that passes over the fields without a NAME.
RECURSIVE register_fields_named(_, _, _, _, _)
register_fields_named(field_elems, object_type, object_name, gen, fields) ==
    IF field_elems = <<>> THEN [gen |-> gen, fields |-> fields]
    ELSE LET field_name == get(Head(field_elems), "NAME")
             r == get_id(gen, object_type, object_name, field_name)
         IN  IF field_name = None
             THEN register_fields_named(Tail(field_elems), object_type,
                                        object_name, gen, fields)
             ELSE register_fields_named(Tail(field_elems), object_type,
                     object_name, r.gen,
                     dict_set(fields, field_name, PyDict("id" :> PyInt(r.ret))))

\* The loop of db_tree and of transformation_graph over the field elements:
\* one get_id per field, fields[field_name] = {"id": field_id}.
RECURSIVE register_fields(_, _, _, _, _)
register_fields(field_elems, object_type, object_name, gen, fields) ==
    IF field_elems = <<>> THEN [gen |-> gen, fields |-> fields]
    ELSE LET field_name == get(Head(field_elems), "NAME")
             r == get_id(gen, object_type, object_name, field_name)
         IN  register_fields(Tail(field_elems), object_type, object_name, r.gen,
                 dict_set(fields, field_name, PyDict("id" :> PyInt(r.ret))))

db_tree(elem, gen) ==
    LET elem_tag == elem.tag
        db_name == get(elem, "DBDNAME")
        schema_name == get(elem, "OWNERNAME")
        table_name == get(elem, "NAME")
        field_tag == IF elem_tag = SOURCE THEN "SOURCEFIELD" ELSE "TARGETFIELD"
        r == register_fields(findall(elem, field_tag), elem_tag, table_name,
                             gen, EmptyDict)
    IN  [gen |-> r.gen,
         ret |-> PyDict(db_name :> PyDict(schema_name :>
                     PyDict(table_name :> r.fields)))]

(* transformation_graph *)

transformation_graph(elem, gen) ==
    LET trans_name == get(elem, "NAME")
        r == register_fields(findall(elem, TRANSFORMFIELD), TRANSFORMFIELD,
                             trans_name, gen, EmptyDict)
    IN  [gen |-> r.gen, ret |-> PyDict(trans_name :> r.fields)]

-----------------------------------------------------------------------------
(* merge_dicts *)

\* merge_dicts that overwrites at every key (never recurses).
merge_dicts_shallow(acc, append) ==
    PyDict([k \in (DOMAIN acc.items) \cup (DOMAIN append.items) |->
              IF k \in DOMAIN append.items THEN append.items[k]
              ELSE acc.items[k]])

\* A merge that adds the integers it finds on both sides of a key.
RECURSIVE merge_dicts_summing(_, _)
merge_dicts_summing(acc, append) ==
    LET merged(key) ==
            IF key \notin DOMAIN append.items THEN acc.items[key]
            ELSE IF key \notin DOMAIN acc.items THEN append.items[key]
            ELSE IF isinstance_dict(acc.items[key])
                    /\ isinstance_dict(append.items[key])
                 THEN merge_dicts_summing(acc.items[key], append.items[key])
            ELSE IF acc.items[key].type = "int" /\ append.items[key].type = "int"
                 THEN PyInt(acc.items[key].value + append.items[key].value)
            ELSE append.items[key]
    IN  PyDict([key \in (DOMAIN acc.items) \cup (DOMAIN append.items) |->
                  merged(key)])

RECURSIVE merge_dicts(_, _)
merge_dicts(acc, append) ==
    PyDict([key \in (DOMAIN acc.items) \cup (DOMAIN append.items) |->
              IF key \notin DOMAIN append.items THEN acc.items[key]
              ELSE LET value == append.items[key]
                       both_values_are_dicts ==
                           /\ isinstance_dict(dict_get(acc, key, PyNone))
                           /\ isinstance_dict(value)
                   IN  IF key \in DOMAIN acc.items /\ both_values_are_dicts
                       THEN merge_dicts(acc.items[key], value)
                       ELSE value])

\* dict.update(other)
dict_update(d, other) ==
    PyDict([k \in (DOMAIN d.items) \cup (DOMAIN other.items) |->
              IF k \in DOMAIN other.items THEN other.items[k] ELSE d.items[k]])

-----------------------------------------------------------------------------
(* mapping_graph *)

RECURSIVE mapping_transformations(_, _, _)
mapping_transformations(trans_elems, gen, transformations) ==
    IF trans_elems = <<>> THEN [gen |-> gen, transformations |-> transformations]
    ELSE LET trans_data == transformation_graph(Head(trans_elems), gen)
         IN  mapping_transformations(Tail(trans_elems), trans_data.gen,
                 dict_update(transformations, trans_data.ret))

RECURSIVE mapping_instances(_, _)
mapping_instances(instance_elems, types) ==
    IF instance_elems = <<>> THEN types
    ELSE LET instance == Head(instance_elems)
         IN  mapping_instances(Tail(instance_elems),
                 dict_set(types, get(instance, "NAME"),
                          PyAttr(get(instance, "TYPE"))))

\* mapping_graph: the generator after the call, the fragment and the
\* instance-type map of the returned pair.
mapping_graph(elem, gen) ==
    IF elem = NoElement
    THEN [gen |-> gen, data |-> EmptyDict, types |-> EmptyDict]
    ELSE LET mapping_name == get(elem, "NAME")
             t == mapping_transformations(findall(elem, TRANSFORMATION), gen,
                                          EmptyDict)
         IN  [gen |-> t.gen,
              data |-> PyDict(mapping_name :> t.transformations),
              types |-> mapping_instances(findall(elem, "INSTANCE"), EmptyDict)]

-----------------------------------------------------------------------------
(* workflow_graph *)

\* A search that keeps the last mapping of that name.
last_mapping_named(mapping_elems, mapping_name) ==
    LET named == SelectSeq(mapping_elems,
                           LAMBDA m : get(m, "NAME") = mapping_name)
    IN  IF named = <<>> THEN NoElement ELSE named[Len(named)]

\* next((m for m in mappings if m.get("NAME") == mapping_name), None)
first_mapping_named(mapping_elems, mapping_name) ==
    LET named == SelectSeq(mapping_elems,
                           LAMBDA m : get(m, "NAME") = mapping_name)
    IN  IF named = <<>> THEN NoElement ELSE Head(named)

RECURSIVE workflow_sessions(_, _, _, _)
workflow_sessions(session_elems, gen, mapping_elems, sessions) ==
    IF session_elems = <<>> THEN [gen |-> gen, sessions |-> sessions]
    ELSE LET session == Head(session_elems)
             session_name == get(session, "NAME")
             mapping_name == get(session, "MAPPINGNAME")
             mapping_elem == first_mapping_named(mapping_elems, mapping_name)
             m == mapping_graph(mapping_elem, gen)
         IN  IF mapping_elem = NoElement
             THEN workflow_sessions(Tail(session_elems), gen, mapping_elems,
                                    sessions)
             ELSE workflow_sessions(Tail(session_elems), m.gen, mapping_elems,
                                    dict_set(sessions, session_name, m.data))

workflow_graph(elem, gen, mapping_elems) ==
    LET workflow_name == get(elem, "NAME")
        r == workflow_sessions(findall(elem, "SESSION"), gen, mapping_elems,
                               EmptyDict)
    IN  [gen |-> r.gen, ret |-> PyDict(workflow_name :> r.sessions)]

-----------------------------------------------------------------------------
(* extract_lineage *)

\* A lookup table that ignores the declared kind.
object_type_of_default(declared) == TRANSFORMFIELD

\* object_type_map.get(declared, TRANSFORMFIELD)
object_type_of(declared) ==
    IF declared.type = "str" /\ declared.value = SOURCE THEN SOURCE
    ELSE IF declared.type = "str" /\ declared.value = TARGET THEN TARGET
    ELSE TRANSFORMFIELD

\* A connector loop that emits an edge as soon as the source end resolves.
connector_step_either(connector, mapping_name, gen, types) ==
    LET of_mapping == dict_get(types, mapping_name, EmptyDict)
        from == get_id_if_exists(gen,
                    object_type_of(dict_get(of_mapping,
                        get(connector, "FROMINSTANCE"), PyNone)),
                    get(connector, "FROMINSTANCE"), get(connector, "FROMFIELD"))
        to == get_id_if_exists(from.gen,
                  object_type_of(dict_get(of_mapping,
                      get(connector, "TOINSTANCE"), PyNone)),
                  get(connector, "TOINSTANCE"), get(connector, "TOFIELD"))
    IN  [exc |-> "none",
         edges |-> IF Truthy(from.ret)
                   THEN << <<from.ret.value,
                             IF Truthy(to.ret) THEN to.ret.value ELSE 0>> >>
                   ELSE <<>>,
         gen |-> to.gen]

\* One iteration of the connector loop: the exception it raises ("none" when
\* it completes), the edges it appends and the generator as it leaves it.
connector_step(connector, mapping_name, gen, types) ==
    LET from_instance == get(connector, "FROMINSTANCE")
        from_field == get(connector, "FROMFIELD")
        to_instance == get(connector, "TOINSTANCE")
        to_field == get(connector, "TOFIELD")
        of_mapping == dict_get(types, mapping_name, EmptyDict)
    IN  IF ~isinstance_dict(of_mapping)
        THEN [exc |-> "AttributeError", edges |-> <<>>, gen |-> gen]
        ELSE
        LET from_type == dict_get(of_mapping, from_instance, PyNone)
            to_type == dict_get(of_mapping, to_instance, PyNone)
        IN  IF isinstance_dict(from_type) \/ isinstance_dict(to_type)
            THEN [exc |-> "TypeError", edges |-> <<>>, gen |-> gen]
            ELSE
            LET from == get_id_if_exists(gen, object_type_of(from_type),
                                         from_instance, from_field)
                to == get_id_if_exists(from.gen, object_type_of(to_type),
                                       to_instance, to_field)
                from_id == from.ret
                to_id == to.ret
            IN  [exc |-> "none",
                 edges |-> IF Truthy(from_id) /\ Truthy(to_id)
                           THEN << <<from_id.value, to_id.value>> >>
                           ELSE <<>>,
                 gen |-> to.gen]

RECURSIVE connector_loop(_, _, _, _, _)
connector_loop(connectors, mapping_name, gen, types, edges) ==
    IF connectors = <<>> THEN [exc |-> "none", ret |-> edges, gen |-> gen]
    ELSE LET s == connector_step(Head(connectors), mapping_name, gen, types)
         IN  IF s.exc # "none"
             THEN [exc |-> s.exc, ret |-> <<>>, gen |-> s.gen]
             ELSE connector_loop(Tail(connectors), mapping_name, s.gen, types,
                                 edges \o s.edges)

\* An extract_lineage that returns its edges last connector first.
extract_lineage_reversed(elem, gen, types) ==
    IF elem = NoElement THEN [exc |-> "none", ret |-> <<>>, gen |-> gen]
    ELSE LET r == connector_loop(findall(elem, "CONNECTOR"), get(elem, "NAME"),
                                 gen, types, <<>>)
         IN  [exc |-> r.exc, gen |-> r.gen,
              ret |-> [n \in 1..Len(r.ret) |-> r.ret[Len(r.ret) + 1 - n]]]

\* An extract_lineage that returns each edge once, as a set of edges would.
extract_lineage_distinct(elem, gen, types) ==
    IF elem = NoElement THEN [exc |-> "none", ret |-> <<>>, gen |-> gen]
    ELSE LET r == connector_loop(findall(elem, "CONNECTOR"), get(elem, "NAME"),
                                 gen, types, <<>>)
             first == {i \in 1..Len(r.ret) :
                         \A j \in 1..(i - 1) : r.ret[j] # r.ret[i]}
         IN  [exc |-> r.exc, gen |-> r.gen,
              ret |-> [n \in 1..Cardinality(first) |->
                         r.ret[CHOOSE i \in first :
                                 Cardinality({k \in first : k <= i}) = n]]]

\* extract_lineage: the exception that leaves the call ("none" when it
\* returns), the list returned and the generator as the call leaves it.
extract_lineage(elem, gen, types) ==
    IF elem = NoElement THEN [exc |-> "none", ret |-> <<>>, gen |-> gen]
    ELSE connector_loop(findall(elem, "CONNECTOR"), get(elem, "NAME"), gen,
                        types, <<>>)

-----------------------------------------------------------------------------
(* Bounds and input sets *)

MaxIds == 3          \* ids a directly driven IDGenerator hands out
MaxInt == 2          \* scalar leaves of the dicts merged directly are 1..MaxInt

Range(s) == {s[i] : i \in DOMAIN s}

\* No direct call has been made / parse_xml is not running.
NoCall == [op |-> "none"]
NoDoc == [status |-> "none", root |-> NoElement]

ParseIdle ==
    /\ doc = NoDoc
    /\ pc = "idle"
    /\ idx = 0
    /\ repo_name = None
    /\ mappings = <<>>
    /\ db_objects = EmptyDict
    /\ informatica_objects = EmptyDict
    /\ lineage = <<>>
    /\ instance_types = EmptyDict
    /\ returned = PyNone
    /\ raised = "none"
    /\ logged = "none"

-----------------------------------------------------------------------------
(* SpecId: one IDGenerator driven by get_id and get_id_if_exists calls *)

IdKeys == {SOURCE, TRANSFORMFIELD} \X {"T1", "T2"} \X {"c1", None}

InitId ==
    /\ id_gen = NewIDGenerator
    /\ seen = <<>>
    /\ call = NoCall
    /\ ParseIdle

CallGetId ==
    \E key \in IdKeys :
        /\ key \in DOMAIN id_gen.id_map \/ id_gen.counter < MaxIds
        /\ LET r == get_id(id_gen, key[1], key[2], key[3])
           IN  /\ id_gen' = r.gen
               /\ call' = [op |-> "get_id", key |-> key, ret |-> r.ret,
                           before |-> id_gen]
        /\ seen' = IF key \in Range(seen) THEN seen ELSE Append(seen, key)
        /\ UNCHANGED parseVars

CallGetIdIfExists ==
    \E key \in IdKeys :
        /\ LET r == get_id_if_exists(id_gen, key[1], key[2], key[3])
           IN  /\ id_gen' = r.gen
               /\ call' = [op |-> "get_id_if_exists", key |-> key,
                           ret |-> r.ret, before |-> id_gen]
        /\ UNCHANGED seen
        /\ UNCHANGED parseVars

NextId == CallGetId \/ CallGetIdIfExists

SpecId == InitId /\ [][NextId]_vars

\* C2: on one IDGenerator every get_id call returns the position of its key
\* in the first-encounter order of the keys seen so far: the same key always
\* gets the same id, distinct keys get distinct ids, the ids handed out are
\* exactly 1..M for M distinct keys, and the counter is the number of keys.
C2_IdentityStable ==
    /\ id_gen.counter = Cardinality(DOMAIN id_gen.id_map)
    /\ id_gen.counter = Len(seen)
    /\ DOMAIN id_gen.id_map = Range(seen)
    /\ \A i \in 1..Len(seen) : id_gen.id_map[seen[i]] = i
    /\ \A i, j \in 1..Len(seen) : seen[i] = seen[j] => i = j
    /\ call.op = "get_id" =>
          /\ call.ret \in 1..Len(seen)
          /\ seen[call.ret] = call.key
          /\ call.key \in DOMAIN call.before.id_map =>
                 call.ret = call.before.id_map[call.key]

\* A repeated key was looked up again after other keys had been allocated.
C2_Witness ==
    /\ call.op = "get_id"
    /\ call.key \in DOMAIN call.before.id_map
    /\ call.ret = 1
    /\ id_gen.counter = MaxIds

-----------------------------------------------------------------------------
(* Input documents of parse_xml *)

MaxTables == 2       \* SOURCE/TARGET elements of a generated document
MaxMappings == 2     \* MAPPING elements of a generated document
MaxWorkflows == 1    \* WORKFLOW elements of a generated document

SeqsUpTo(S, n) == UNION {[1..k -> S] : k \in 0..n}

NameAttrib(name) == IF name = None THEN NoAttrib ELSE [NAME |-> name]

Fields(tag, names) ==
    [i \in 1..Len(names) |-> Elem(tag, NameAttrib(names[i]), <<>>)]

\* <SOURCE DBDNAME= OWNERNAME= NAME=> or <TARGET ...> with its field children.
Table(tag, db, schema, name, field_names) ==
    Elem(tag, [DBDNAME |-> db, OWNERNAME |-> schema, NAME |-> name],
         Fields(IF tag = SOURCE THEN "SOURCEFIELD" ELSE "TARGETFIELD",
                field_names))

Transformation(name, field_names) ==
    Elem(TRANSFORMATION, NameAttrib(name), Fields(TRANSFORMFIELD, field_names))

Instance(name, type) ==
    Elem("INSTANCE",
         IF type = None THEN [NAME |-> name] ELSE [NAME |-> name, TYPE |-> type],
         <<>>)

Connector(from_instance, from_field, to_instance, to_field) ==
    Elem("CONNECTOR",
         [FROMINSTANCE |-> from_instance, FROMFIELD |-> from_field,
          TOINSTANCE |-> to_instance, TOFIELD |-> to_field], <<>>)

Mapping(name, transformations, instances, connectors) ==
    Elem("MAPPING", NameAttrib(name),
         transformations \o instances \o connectors)

Session(name, mapping_name) ==
    Elem("SESSION", [NAME |-> name, MAPPINGNAME |-> mapping_name], <<>>)

Workflow(name, sessions) == Elem("WORKFLOW", NameAttrib(name), sessions)

\* <POWERMART><REPOSITORY NAME=><FOLDER> ... </FOLDER></REPOSITORY></POWERMART>
Document(repo, tables, mapping_elems, workflows) ==
    [status |-> "ok",
     root |-> Elem("POWERMART", NoAttrib,
                <<Elem("REPOSITORY", NameAttrib(repo),
                    <<Elem("FOLDER", [NAME |-> "folder"],
                           tables \o mapping_elems \o workflows)>>)>>)]

\* The same without a REPOSITORY element.
BareDocument(tables, mapping_elems, workflows) ==
    [status |-> "ok",
     root |-> Elem("POWERMART", NoAttrib,
                   tables \o mapping_elems \o workflows)]

\* A file ET.parse cannot read: missing, zero-length or malformed.
BadFile(status) == [status |-> status, root |-> NoElement]

\* The end-to-end example of the specification.
ExampleTables ==
    <<Table(SOURCE, "TestDB", "dbo", "TestTable", <<"TestCol", "TestCol2">>)>>
ExampleMapping ==
    Mapping("m_test",
            <<Transformation("SQ_Test", <<"TestCol">>)>>,
            <<Instance("TestTable", SOURCE), Instance("SQ_Test", TRANSFORMATION)>>,
            <<Connector("TestTable", "TestCol", "SQ_Test", "TestCol"),
              Connector("SQ_Test", "TestCol", "TargetTable", "TargetCol")>>)
ExampleDoc == Document("repo", ExampleTables, <<ExampleMapping>>, <<>>)

TablePool ==
    {Table(tag, db, "dbo", name, <<"c1">>) :
        tag \in {SOURCE, TARGET}, db \in {"DB1", "DB2"}, name \in {"T1", "T2"}}
    \cup {Table(SOURCE, "DB1", "raw", "T1", <<None, "c2", None>>)}

\* The children of the generated mappings; n is the mapping's own name.
MappingBodies(n) ==
    { \* a source feeding a transformation feeding an unregistered target
      <<<<Transformation("SQ", <<"c1">>)>>,
        <<Instance("T1", SOURCE), Instance("SQ", TRANSFORMATION)>>,
        <<Connector("T1", "c1", "SQ", "c1"), Connector("SQ", "c1", "T2", "c9")>>>>,
      \* two transformations, the connector between them written twice
      <<<<Transformation("SQ", <<"c1">>), Transformation("EXP", <<"c1", None>>)>>,
        <<Instance("SQ", TRANSFORMATION), Instance("EXP", TRANSFORMATION)>>,
        <<Connector("SQ", "c1", "EXP", "c1"), Connector("SQ", "c1", "EXP", "c1")>>>>,
      \* two transformations of one name
      <<<<Transformation("SQ", <<"c1">>), Transformation("SQ", <<"c2">>)>>,
        <<Instance("SQ", TRANSFORMATION)>>,
        <<Connector("SQ", "c1", "SQ", "c2")>>>>,
      \* an instance named like its mapping
      <<<<Transformation("SQ", <<"c1">>)>>,
        <<Instance(n, SOURCE), Instance("SQ", TRANSFORMATION)>>,
        <<Connector("SQ", "c1", "SQ", "c1")>>>>,
      \* an instance named like its mapping, without TYPE
      <<<<Transformation("SQ", <<"c2">>)>>,
        <<Instance(n, None)>>,
        <<Connector(n, "c1", "SQ", "c2")>>>>,
      \* a connector into a transformation another mapping declares
      <<<<Transformation("SQ", <<"c1">>)>>,
        <<Instance("SQ", TRANSFORMATION), Instance("EXP", "Expression")>>,
        <<Connector("SQ", "c1", "EXP", "c1")>>>>,
      \* a transformation named like a source table
      <<<<Transformation("T1", <<"c1">>), Transformation("SQ", <<"c1">>)>>,
        <<Instance("T1", SOURCE), Instance("SQ", TRANSFORMATION)>>,
        <<Connector("T1", "c1", "SQ", "c1")>>>>,
      \* two different connectors, the second written twice
      <<<<Transformation("SQ", <<"c1", "c2">>)>>,
        <<Instance("SQ", TRANSFORMATION)>>,
        <<Connector("SQ", "c2", "SQ", "c1"), Connector("SQ", "c1", "SQ", "c2"),
          Connector("SQ", "c1", "SQ", "c2")>>>>,
      \* no children
      <<<<>>, <<>>, <<>>>> }

\* The children of a second mapping.
LaterBodies(n) ==
    {<<<<Transformation("SQ", <<"c1">>), Transformation("EXP", <<"c1">>)>>,
       <<Instance("SQ", TRANSFORMATION), Instance("EXP", TRANSFORMATION)>>,
       <<Connector("SQ", "c1", "EXP", "c1")>>>>,
     <<<<Transformation("SQ", <<"c2">>)>>,
       <<Instance(n, SOURCE)>>,
       <<Connector("SQ", "c2", "SQ", "c1")>>>>}

MappingPool ==
    {Mapping("m1", b[1], b[2], b[3]) : b \in MappingBodies("m1")}
    \cup {Mapping("m2", b[1], b[2], b[3]) : b \in LaterBodies("m2")}

\* The mappings the generated workflows refer to.
SessionMappingPool ==
    {Mapping("m1", <<Transformation("SQ", <<"c1">>)>>,
             <<Instance("SQ", TRANSFORMATION)>>, <<>>),
     Mapping("m1", <<Transformation("EXP", <<"c1">>)>>, <<>>, <<>>),
     Mapping("m2", <<Transformation("SQ", <<"c1", "c2">>)>>, <<>>,
             <<Connector("SQ", "c1", "SQ", "c2")>>)}

SessionLists ==
    {<<Session("s1", "m1")>>,
     <<Session("s1", "m9"), Session("s2", "m1")>>,
     <<Session("s1", "m1"), Session("s1", "m2")>>,
     <<Session("s1", "m1"), Session("s1", "m9")>>,
     <<Session("SQ", "m2"), Session("s2", "m9")>>}

WorkflowPool ==
    {Workflow("wf1", ss) : ss \in SessionLists}
    \cup {Workflow("m1", <<Session("SQ", "m1")>>)}

FixedTables == <<Table(SOURCE, "DB1", "dbo", "T1", <<"c1">>),
                 Table(TARGET, "DB1", "dbo", "T2", <<"c1">>)>>

Docs ==
    {ExampleDoc}
    \cup {BadFile(st) : st \in {"missing", "empty", "malformed", "directory",
                                 "nullbyte"}}
    \cup {Document("repo", ts,
                   <<Mapping("m1", <<Transformation("SQ", <<"c1">>)>>, <<>>,
                             <<>>)>>, <<>>) :
            ts \in SeqsUpTo(TablePool, MaxTables)}
    \cup {Document("repo", FixedTables, ms, <<>>) :
            ms \in SeqsUpTo(MappingPool, MaxMappings)}
    \cup {Document(None, FixedTables, ms, ws) :
            ms \in SeqsUpTo(SessionMappingPool, MaxMappings),
            ws \in SeqsUpTo(WorkflowPool, MaxWorkflows)}
    \cup {BareDocument(FixedTables, ms, ws) :
            ms \in SeqsUpTo(SessionMappingPool, 1),
            ws \in SeqsUpTo(WorkflowPool, 1)}

-----------------------------------------------------------------------------
(* SpecMerge: merge_dicts called directly on two nested dicts *)

MergeKeys == {"a", "b"}
Scalars == {PyInt(n) : n \in 1..MaxInt}

\* The dicts over a set of keys whose values are drawn from a set of values.
DictsOver(keys, values) ==
    UNION {{PyDict(f) : f \in [ks -> values]} : ks \in SUBSET keys}

Dicts1 == DictsOver(MergeKeys, Scalars)
Dicts2 == DictsOver(MergeKeys, Scalars \cup Dicts1)

\* The dicts of test_merge_dicts.
TestAcc == PyDict("a" :> PyDict("b" :> PyInt(1)))
TestAppend == PyDict(("a" :> PyDict("c" :> PyInt(2))) @@ ("d" :> PyInt(3)))
TestMerged ==
    PyDict(("a" :> PyDict(("b" :> PyInt(1)) @@ ("c" :> PyInt(2))))
           @@ ("d" :> PyInt(3)))

InitMerge ==
    /\ id_gen = NewIDGenerator
    /\ seen = <<>>
    /\ \E acc \in Dicts2, append \in Dicts2 :
          call = [op |-> "args", acc |-> acc, append |-> append]
    /\ ParseIdle

InitMergeTest ==
    /\ id_gen = NewIDGenerator
    /\ seen = <<>>
    /\ call = [op |-> "args", acc |-> TestAcc, append |-> TestAppend]
    /\ ParseIdle

\* The tables whose fragments are merged: one location with different
\* fields, other locations, a field without a NAME.
MergeTables ==
    {Table(SOURCE, "DB1", "dbo", "T1", <<"c1">>),
     Table(SOURCE, "DB1", "dbo", "T1", <<"c1", "c2">>),
     Table(TARGET, "DB1", "dbo", "T1", <<"c2">>),
     Table(TARGET, "DB1", "dbo", "T2", <<"c1">>),
     Table(SOURCE, "DB2", "dbo", "T1", <<None>>)}

\* Two fragments db_tree builds on one IDGenerator, the first as the
\* accumulator and the second as the addition.
InitMergeFragments ==
    /\ id_gen = NewIDGenerator
    /\ seen = <<>>
    /\ \E t1 \in MergeTables, t2 \in MergeTables :
          LET r1 == db_tree(t1, NewIDGenerator)
              r2 == db_tree(t2, r1.gen)
          IN  call = [op |-> "args", acc |-> r1.ret, append |-> r2.ret]
    /\ ParseIdle

CallMergeDicts ==
    /\ call.op = "args"
    /\ call' = [op |-> "merge_dicts", acc |-> call.acc, append |-> call.append,
                ret |-> merge_dicts(call.acc, call.append)]
    /\ UNCHANGED <<id_gen, seen>>
    /\ UNCHANGED parseVars

\* The same addition merged into the result of the first merge.
CallMergeDictsAgain ==
    /\ call.op = "merge_dicts"
    /\ call' = [op |-> "merge_dicts_again", first |-> call.acc,
                acc |-> call.ret, append |-> call.append,
                ret |-> merge_dicts(call.ret, call.append)]
    /\ UNCHANGED <<id_gen, seen>>
    /\ UNCHANGED parseVars

NextMerge == CallMergeDicts \/ CallMergeDictsAgain

SpecMerge ==
    (InitMerge \/ InitMergeTest \/ InitMergeFragments) /\ [][NextMerge]_vars

\* The claim's rule for one key of the result, with the recursive case
\* compared below the key by the same rule.
RECURSIVE MergedByRule(_, _, _)
MergedByRule(acc, append, ret) ==
    /\ isinstance_dict(ret)
    /\ DOMAIN ret.items = (DOMAIN acc.items) \cup (DOMAIN append.items)
    /\ \A k \in DOMAIN ret.items :
          IF k \notin DOMAIN append.items THEN ret.items[k] = acc.items[k]
          ELSE IF /\ k \in DOMAIN acc.items
                  /\ acc.items[k].type = "dict"
                  /\ append.items[k].type = "dict"
               THEN MergedByRule(acc.items[k], append.items[k], ret.items[k])
               ELSE ret.items[k] = append.items[k]

\* C6: merge_dicts(acc, addition) holds, for every key of addition, the
\* recursive merge when both sides are mappings and the incoming value
\* otherwise, and keeps every other key of acc; the dicts of test_merge_dicts
\* merge to {"a": {"b": 1, "c": 2}, "d": 3}.
C6_MergeRule ==
    call.op = "merge_dicts" =>
        /\ MergedByRule(call.acc, call.append, call.ret)
        /\ (call.acc = TestAcc /\ call.append = TestAppend) =>
               call.ret = TestMerged

\* A mapping replaced a scalar, a scalar replaced a mapping and two mappings
\* were merged below a key, in merges that have run.
C6_Witness ==
    /\ call.op = "merge_dicts"
    /\ \/ /\ call.acc = TestAcc
          /\ call.append = TestAppend
       \/ /\ "a" \in DOMAIN call.acc.items
          /\ "a" \in DOMAIN call.append.items
          /\ call.acc.items["a"].type = "dict"
          /\ call.append.items["a"].type = "int"
    /\ call.ret # call.acc
    /\ call.ret # call.append

-----------------------------------------------------------------------------
(* parse_xml *)

\* The exception ET.parse raises for the file, "none" when it parses: a
\* path that names no file, a zero-length or malformed file, a path that
\* names a directory, a path with an embedded null byte.
parse_error(d) ==
    CASE d.status = "missing" -> "FileNotFoundError"
      [] d.status = "empty" -> "ParseError"
      [] d.status = "malformed" -> "ParseError"
      [] d.status = "directory" -> "IsADirectoryError"
      [] d.status = "nullbyte" -> "ValueError"
      [] OTHER -> "none"

\* Except clauses that name only the parser's and the file system's errors.
caught_narrow(exc) == exc \in {"ParseError", "FileNotFoundError"}

\* The exception classes that do not derive from Exception: BaseException
\* itself and its direct subclasses other than Exception.
NotExceptions ==
    {"BaseException", "BaseExceptionGroup", "GeneratorExit",
     "KeyboardInterrupt", "SystemExit", "CancelledError"}

\* The except clauses of parse_xml: ParseError, FileNotFoundError, and
\* Exception, which takes every other exception that derives from it and
\* lets the classes of NotExceptions leave parse_xml.
caught(exc) ==
    \/ exc = "ParseError"
    \/ exc = "FileNotFoundError"
    \/ exc \notin NotExceptions

\* A first phase that walks the SOURCE elements only.
all_source_only(root) == findall_descendants(root, SOURCE)

all_source_target(root) ==
    findall_descendants(root, SOURCE) \o findall_descendants(root, TARGET)

\* The message the matching except clause logs.
error_logged(exc) ==
    CASE exc = "none" -> "none"
      [] exc = "ParseError" -> "XML parsing error"
      [] exc = "FileNotFoundError" -> "XML file not found"
      [] OTHER -> "Error"

\* The return statement after the try block, or the exception leaving
\* parse_xml when no except clause matches.
Leave(exc, db, inf, lin) ==
    /\ pc' = "done"
    /\ IF exc = "none" \/ caught(exc)
       THEN /\ returned' = [db_objects |-> db, informatica_objects |-> inf,
                            lineage |-> lin]
            /\ raised' = "none"
            /\ logged' = error_logged(exc)
       ELSE /\ returned' = PyNone
            /\ raised' = exc
            /\ logged' = "none"

Init ==
    /\ doc \in Docs
    /\ pc = "start"
    /\ idx = 0
    /\ id_gen = NewIDGenerator
    /\ seen = <<>>
    /\ call = NoCall
    /\ repo_name = None
    /\ mappings = <<>>
    /\ db_objects = EmptyDict
    /\ informatica_objects = EmptyDict
    /\ lineage = <<>>
    /\ instance_types = EmptyDict
    /\ returned = PyNone
    /\ raised = "none"
    /\ logged = "none"

\* ET.parse, getroot and the repository name.
ParseTree ==
    /\ pc = "start"
    /\ parse_error(doc) = "none"
    /\ LET repo == find_descendant(doc.root, "REPOSITORY")
       IN  repo_name' = IF repo # NoElement THEN get(repo, "NAME") ELSE "N/A"
    /\ pc' = "sources"
    /\ idx' = 1
    /\ UNCHANGED <<id_gen, seen, call, doc, mappings, db_objects,
                   informatica_objects, lineage, instance_types, returned, raised,
                   logged>>

\* ET.parse raises.
ParseFails ==
    /\ pc = "start"
    /\ parse_error(doc) # "none"
    /\ Leave(parse_error(doc), db_objects, informatica_objects, lineage)
    /\ UNCHANGED <<id_gen, seen, call, doc, idx, repo_name, mappings, db_objects,
                   informatica_objects, lineage, instance_types>>

\* One iteration of the loop over the SOURCE and TARGET elements.
MergeDbTree ==
    /\ pc = "sources"
    /\ idx <= Len(all_source_target(doc.root))
    /\ LET r == db_tree(all_source_target(doc.root)[idx], id_gen)
       IN  /\ id_gen' = r.gen
           /\ db_objects' = merge_dicts(db_objects, r.ret)
    /\ idx' = idx + 1
    /\ UNCHANGED <<seen, call, doc, pc, repo_name, mappings,
                   informatica_objects, lineage, instance_types, returned, raised,
                   logged>>

\* mappings = root.findall(".//MAPPING")
FindMappings ==
    /\ pc = "sources"
    /\ idx > Len(all_source_target(doc.root))
    /\ mappings' = findall_descendants(doc.root, "MAPPING")
    /\ pc' = "mappings"
    /\ idx' = 1
    /\ UNCHANGED <<id_gen, seen, call, doc, repo_name, db_objects,
                   informatica_objects, lineage, instance_types, returned, raised,
                   logged>>

\* instance_types[mapping_name][instance_name] = instance_type for the items
\* of the mapping's own map (a defaultdict(dict)).
record_instance_types(all_types, mapping_name, mapping_types) ==
    IF DOMAIN mapping_types.items = {} THEN all_types
    ELSE dict_set(all_types, mapping_name,
                  dict_update(dict_get(all_types, mapping_name, EmptyDict),
                              mapping_types))

\* One iteration of the loop over the MAPPING elements.
ProcessMapping ==
    /\ pc = "mappings"
    /\ idx <= Len(mappings)
    /\ LET mapping == mappings[idx]
           mapping_name == get(mapping, "NAME")
           m == mapping_graph(mapping, id_gen)
           inf == merge_dicts(informatica_objects,
                              PyDict(repo_name :> m.data))
           lineage_update == extract_lineage(mapping, m.gen, m.types)
       IN  /\ id_gen' = lineage_update.gen
           /\ informatica_objects' = inf
           /\ instance_types' =
                  record_instance_types(instance_types, mapping_name, m.types)
           /\ IF lineage_update.exc = "none"
              THEN /\ lineage' = lineage \o lineage_update.ret
                   /\ idx' = idx + 1
                   /\ UNCHANGED <<pc, returned, raised, logged>>
              ELSE /\ Leave(lineage_update.exc, db_objects, inf, lineage)
                   /\ UNCHANGED <<lineage, idx>>
    /\ UNCHANGED <<seen, call, doc, repo_name, mappings, db_objects>>

\* The loop over the MAPPING elements ends.
FindWorkflows ==
    /\ pc = "mappings"
    /\ idx > Len(mappings)
    /\ pc' = "workflows"
    /\ idx' = 1
    /\ UNCHANGED <<id_gen, seen, call, doc, repo_name, mappings, db_objects,
                   informatica_objects, lineage, instance_types, returned, raised,
                   logged>>

\* One iteration of the loop over the WORKFLOW elements.
ProcessWorkflow ==
    /\ pc = "workflows"
    /\ idx <= Len(findall_descendants(doc.root, "WORKFLOW"))
    /\ LET workflow == findall_descendants(doc.root, "WORKFLOW")[idx]
           wf_data == workflow_graph(workflow, id_gen, mappings)
       IN  /\ id_gen' = wf_data.gen
           /\ informatica_objects' =
                  merge_dicts(informatica_objects,
                              PyDict(repo_name :> wf_data.ret))
    /\ idx' = idx + 1
    /\ UNCHANGED <<seen, call, doc, pc, repo_name, mappings, db_objects,
                   lineage, instance_types, returned, raised,
                   logged>>

\* The try block ends; return db_objects, informatica_objects, lineage.
Return ==
    /\ pc = "workflows"
    /\ idx > Len(findall_descendants(doc.root, "WORKFLOW"))
    /\ Leave("none", db_objects, informatica_objects, lineage)
    /\ UNCHANGED <<id_gen, seen, call, doc, idx, repo_name, mappings, db_objects,
                   informatica_objects, lineage, instance_types>>

Next ==
    \/ ParseTree
    \/ ParseFails
    \/ MergeDbTree
    \/ FindMappings
    \/ ProcessMapping
    \/ FindWorkflows
    \/ ProcessWorkflow
    \/ Return

Spec == Init /\ [][Next]_vars

-----------------------------------------------------------------------------
(* SpecLineage: extract_lineage called directly, as test_unit.py calls it,  *)
(* on an IDGenerator populated by get_id calls, with an instance-type map   *)
(* keyed by mapping name.                                                   *)

MaxConnectors == 2   \* CONNECTOR children of a directly passed mapping

LineageKeys ==
    {<<SOURCE, "T1", "c1">>, <<TRANSFORMFIELD, "SQ", "c1">>,
     <<TARGET, "T2", "c1">>, <<TRANSFORMFIELD, "T1", "c1">>}

ConnectorPool ==
    {Connector("T1", "c1", "SQ", "c1"), Connector("SQ", "c1", "T2", "c1"),
     Connector("UNK", "c1", "SQ", "c1"), Connector("SQ", "c1", "SQ", "c9")}

LineageMappings ==
    {Mapping("m1", <<>>, <<>>, cs) : cs \in SeqsUpTo(ConnectorPool, MaxConnectors)}

\* {instance name: declared TYPE} for the instances that are declared.
Declarations ==
    {PyDict(f) :
       f \in UNION {[ns -> {PyStr(SOURCE), PyStr(TARGET), PyStr(TRANSFORMATION),
                            PyStr("Expression"), PyNone}] :
                      ns \in SUBSET {"T1", "SQ", "T2"}}}

\* The declarations a mapping's INSTANCE children can have given these
\* endpoints: each name declared once, as what it is, as something else, or
\* not declared.
LineageDeclarations ==
    {d \in Declarations :
       /\ "SQ" \in DOMAIN d.items => d.items["SQ"] = PyStr(TRANSFORMATION)
       /\ "T2" \in DOMAIN d.items => d.items["T2"] = PyStr(TARGET)}

\* instance_types as the tests pass it: {mapping name: {instance: TYPE}}.
LineageTypeMaps ==
    {PyDict("m1" :> d) : d \in LineageDeclarations}
    \cup {PyDict("m2" :> d) : d \in {PyDict("T1" :> PyStr(SOURCE))}}
    \cup {EmptyDict}

InitLineage ==
    /\ id_gen = NewIDGenerator
    /\ seen = <<>>
    /\ call = NoCall
    /\ ParseIdle

\* The get_id calls that populate the generator before the call under test.
PopulateLineage ==
    \E key \in LineageKeys :
        /\ call.op \in {"none", "get_id"}
        /\ key \notin DOMAIN id_gen.id_map
        /\ id_gen.counter < MaxIds
        /\ LET r == get_id(id_gen, key[1], key[2], key[3])
           IN  /\ id_gen' = r.gen
               /\ call' = [op |-> "get_id", key |-> key, ret |-> r.ret,
                           before |-> id_gen]
        /\ seen' = Append(seen, key)
        /\ UNCHANGED parseVars

CallExtractLineage ==
    \E elem \in LineageMappings, types \in LineageTypeMaps :
        /\ call.op \in {"none", "get_id"}
        /\ LET r == extract_lineage(elem, id_gen, types)
           IN  /\ id_gen' = r.gen
               /\ call' = [op |-> "extract_lineage", elem |-> elem,
                           types |-> types, exc |-> r.exc, ret |-> r.ret,
                           before |-> id_gen]
        /\ UNCHANGED seen
        /\ UNCHANGED parseVars

\* The keys get_id_if_exists is called with directly: those that can be
\* registered and one that never is.
LookupKeys == LineageKeys \cup {<<TARGET, "T1", "c1">>}

LookupLineage ==
    \E key \in LookupKeys :
        /\ call.op \in {"none", "get_id"}
        /\ LET r == get_id_if_exists(id_gen, key[1], key[2], key[3])
           IN  /\ id_gen' = r.gen
               /\ call' = [op |-> "get_id_if_exists", key |-> key,
                           ret |-> r.ret, before |-> id_gen]
        /\ UNCHANGED seen
        /\ UNCHANGED parseVars

NextLineage == PopulateLineage \/ CallExtractLineage \/ LookupLineage

SpecLineage == InitLineage /\ [][NextLineage]_vars

-----------------------------------------------------------------------------
(* SpecGraph: the fragment builders called directly on one element, on an   *)
(* IDGenerator populated by get_id calls.                                   *)

GraphKeys ==
    {<<TRANSFORMFIELD, "SQ", "c2">>, <<TRANSFORMFIELD, "EXP", "c1">>,
     <<SOURCE, "T1", None>>}

InitGraph ==
    /\ id_gen = NewIDGenerator
    /\ seen = <<>>
    /\ call = NoCall
    /\ ParseIdle

PopulateGraph ==
    \E key \in GraphKeys :
        /\ call.op \in {"none", "get_id"}
        /\ key \notin DOMAIN id_gen.id_map
        /\ id_gen.counter < MaxIds
        /\ LET r == get_id(id_gen, key[1], key[2], key[3])
           IN  /\ id_gen' = r.gen
               /\ call' = [op |-> "get_id", key |-> key, ret |-> r.ret,
                           before |-> id_gen]
        /\ seen' = Append(seen, key)
        /\ UNCHANGED parseVars

\* The tables db_tree is called on: those of the documents, the table of
\* test_process_source_or_target_missing_field_name and a target whose two
\* fields both lack a NAME.
GraphTables ==
    TablePool
    \cup {Table(SOURCE, "TestDB", "dbo", "TestTable", <<None>>),
          Table(TARGET, "DB1", "dbo", "T2", <<None, None>>)}

CallDbTree ==
    \E elem \in GraphTables :
        /\ call.op \in {"none", "get_id"}
        /\ LET r == db_tree(elem, id_gen)
           IN  /\ id_gen' = r.gen
               /\ call' = [op |-> "db_tree", elem |-> elem, ret |-> r.ret,
                           before |-> id_gen]
        /\ UNCHANGED seen
        /\ UNCHANGED parseVars

TransformationPool ==
    {Transformation(n, fs) :
        n \in {"SQ", None},
        fs \in {<<>>, <<"c1", "c2">>, <<None>>, <<None, "c2", None>>}}

CallTransformationGraph ==
    \E elem \in TransformationPool :
        /\ call.op \in {"none", "get_id"}
        /\ LET r == transformation_graph(elem, id_gen)
           IN  /\ id_gen' = r.gen
               /\ call' = [op |-> "transformation_graph", elem |-> elem,
                           ret |-> r.ret, before |-> id_gen]
        /\ UNCHANGED seen
        /\ UNCHANGED parseVars

CallMappingGraph ==
    \E elem \in MappingPool \cup {ExampleMapping, NoElement} :
        /\ call.op \in {"none", "get_id"}
        /\ LET r == mapping_graph(elem, id_gen)
           IN  /\ id_gen' = r.gen
               /\ call' = [op |-> "mapping_graph", elem |-> elem,
                           data |-> r.data, types |-> r.types,
                           before |-> id_gen]
        /\ UNCHANGED seen
        /\ UNCHANGED parseVars

CallWorkflowGraph ==
    \E elem \in WorkflowPool,
       mapping_elems \in SeqsUpTo(SessionMappingPool, MaxMappings) :
        /\ call.op \in {"none", "get_id"}
        /\ LET r == workflow_graph(elem, id_gen, mapping_elems)
           IN  /\ id_gen' = r.gen
               /\ call' = [op |-> "workflow_graph", elem |-> elem,
                           mappings |-> mapping_elems, ret |-> r.ret,
                           before |-> id_gen]
        /\ UNCHANGED seen
        /\ UNCHANGED parseVars

NextGraph ==
    \/ PopulateGraph
    \/ CallDbTree
    \/ CallTransformationGraph
    \/ CallMappingGraph
    \/ CallWorkflowGraph

SpecGraph == InitGraph /\ [][NextGraph]_vars

-----------------------------------------------------------------------------
(* Properties of extract_lineage, under SpecLineage *)

\* The kind the fixed table gives an instance of a mapping: by its declared
\* TYPE in the map of that mapping, TRANSFORMFIELD when it is not declared.
DeclaredKind(types, mapping_name, instance) ==
    LET declared ==
            IF /\ mapping_name \in DOMAIN types.items
               /\ instance \in DOMAIN types.items[mapping_name].items
            THEN types.items[mapping_name].items[instance]
            ELSE PyNone
    IN  CASE declared = PyStr("SOURCE") -> "SOURCE"
          [] declared = PyStr("TARGET") -> "TARGET"
          [] declared = PyStr("TRANSFORMATION") -> "TRANSFORMFIELD"
          [] OTHER -> "TRANSFORMFIELD"

FromKey(types, mapping_name, c) ==
    <<DeclaredKind(types, mapping_name, c.attrib.FROMINSTANCE),
      c.attrib.FROMINSTANCE, c.attrib.FROMFIELD>>

ToKey(types, mapping_name, c) ==
    <<DeclaredKind(types, mapping_name, c.attrib.TOINSTANCE),
      c.attrib.TOINSTANCE, c.attrib.TOFIELD>>

\* Both ends of the connector are registered under their declared kinds.
Resolves(gen, types, mapping_name, c) ==
    /\ FromKey(types, mapping_name, c) \in DOMAIN gen.id_map
    /\ ToKey(types, mapping_name, c) \in DOMAIN gen.id_map

EdgeOf(gen, types, mapping_name, c) ==
    <<gen.id_map[FromKey(types, mapping_name, c)],
      gen.id_map[ToKey(types, mapping_name, c)]>>

CallConnectors == findall(call.elem, "CONNECTOR")

\* C3: extract_lineage looks each endpoint up under the kind its declared
\* TYPE gives (SOURCE, TARGET, TRANSFORMATION -> TRANSFORMFIELD, anything
\* else or nothing -> TRANSFORMFIELD): the edges returned are those of the
\* connectors whose two ends are registered under these kinds, and with a
\* source, a transform and a target field registered and declared the
\* connectors source->transform, transform->target give exactly
\* [sourceId, transformId], [transformId, targetId].
C3_KindMapping ==
    call.op = "extract_lineage" =>
        LET name == get(call.elem, "NAME")
            cs == CallConnectors
        IN  /\ Range(call.ret) =
                 {EdgeOf(call.before, call.types, name, cs[i]) :
                    i \in {j \in 1..Len(cs) :
                             Resolves(call.before, call.types, name, cs[j])}}
            /\ ( /\ cs = <<Connector("T1", "c1", "SQ", "c1"),
                           Connector("SQ", "c1", "T2", "c1")>>
                 /\ call.types = PyDict("m1" :>
                       PyDict([T1 |-> PyStr("SOURCE"),
                               SQ |-> PyStr("TRANSFORMATION"),
                               T2 |-> PyStr("TARGET")]))
                 /\ {<<"SOURCE", "T1", "c1">>, <<"TRANSFORMFIELD", "SQ", "c1">>,
                     <<"TARGET", "T2", "c1">>} \subseteq DOMAIN call.before.id_map )
               => call.ret =
                    << <<call.before.id_map[<<"SOURCE", "T1", "c1">>],
                         call.before.id_map[<<"TRANSFORMFIELD", "SQ", "c1">>]>>,
                       <<call.before.id_map[<<"TRANSFORMFIELD", "SQ", "c1">>],
                         call.before.id_map[<<"TARGET", "T2", "c1">>]>> >>

\* The call of test_extract_lineage, with the transformation's name also
\* registered as a source table's: two edges came back.
C3_Witness ==
    /\ call.op = "extract_lineage"
    /\ CallConnectors = <<Connector("T1", "c1", "SQ", "c1"),
                          Connector("SQ", "c1", "T2", "c1")>>
    /\ call.types = PyDict("m1" :> PyDict([T1 |-> PyStr("SOURCE"),
                                           SQ |-> PyStr("TRANSFORMATION"),
                                           T2 |-> PyStr("TARGET")]))
    /\ Len(call.ret) = 2
    /\ call.before.counter = 3

RECURSIVE ResolvedEdges(_, _, _, _)
ResolvedEdges(gen, types, mapping_name, cs) ==
    IF cs = <<>> THEN <<>>
    ELSE (IF Resolves(gen, types, mapping_name, Head(cs))
          THEN <<EdgeOf(gen, types, mapping_name, Head(cs))>> ELSE <<>>)
         \o ResolvedEdges(gen, types, mapping_name, Tail(cs))

\* C4: extract_lineage returns, without raising, one edge [fromId, toId] for
\* each connector whose two lookups find an id and nothing for any other
\* connector; an unresolved connector does not stop the ones after it.
C4_EdgeIffBothResolve ==
    call.op = "extract_lineage" =>
        /\ call.exc = "none"
        /\ call.ret = ResolvedEdges(call.before, call.types,
                                    get(call.elem, "NAME"), CallConnectors)
        /\ \A i \in 1..Len(call.ret) :
              /\ Len(call.ret[i]) = 2
              /\ \A j \in 1..2 : call.ret[i][j] \in 1..call.before.counter

\* A connector whose FROMINSTANCE is declared nowhere and whose target is
\* registered was dropped, and the connector after it gave its edge.
C4_Witness ==
    /\ call.op = "extract_lineage"
    /\ CallConnectors = <<Connector("UNK", "c1", "SQ", "c1"),
                          Connector("T1", "c1", "SQ", "c1")>>
    /\ <<"TRANSFORMFIELD", "SQ", "c1">> \in DOMAIN call.before.id_map
    /\ Len(call.ret) = 1

-----------------------------------------------------------------------------
(* Properties of the fragment builders, under SpecGraph *)

CallSessions == findall(call.elem, "SESSION")

Matches(session, mapping_elems) ==
    \E i \in 1..Len(mapping_elems) :
        get(mapping_elems[i], "NAME") = get(session, "MAPPINGNAME")

\* What mapping_graph files for the first mapping element carrying the name.
SessionData(session, mapping_elems, gen) ==
    LET i == CHOOSE i \in 1..Len(mapping_elems) :
                 /\ get(mapping_elems[i], "NAME") = get(session, "MAPPINGNAME")
                 /\ \A j \in 1..(i - 1) :
                       get(mapping_elems[j], "NAME") # get(session, "MAPPINGNAME")
    IN  mapping_graph(mapping_elems[i], gen).data

WorkflowSessions == call.ret.items[get(call.elem, "NAME")]

\* C9 as stated: every session without a matching mapping is absent from
\* the workflow fragment by name, and every session with one is filed under
\* its name with the fragment of the first mapping element of that name.
C9_AsStated ==
    call.op = "workflow_graph" =>
        \A i \in 1..Len(CallSessions) :
            LET s == CallSessions[i]
            IN  IF Matches(s, call.mappings)
                THEN /\ get(s, "NAME") \in DOMAIN WorkflowSessions.items
                     /\ WorkflowSessions.items[get(s, "NAME")] =
                            SessionData(s, call.mappings, id_gen)
                ELSE get(s, "NAME") \notin DOMAIN WorkflowSessions.items

\* C9: workflow_graph returns {workflowName: sessions} where sessions holds
\* exactly the names of the sessions that match a mapping; a session that
\* matches none adds no entry and stops nothing, and the entry of a name is
\* the fragment of the first mapping element, in document order, named by
\* the last matching session of that name.
C9_SkipsUnmatchedSessions ==
    call.op = "workflow_graph" =>
        LET matching == {i \in 1..Len(CallSessions) :
                            Matches(CallSessions[i], call.mappings)}
        IN  /\ DOMAIN call.ret.items = {get(call.elem, "NAME")}
            /\ DOMAIN WorkflowSessions.items =
                   {get(CallSessions[i], "NAME") : i \in matching}
            /\ \A i \in matching :
                  (\A j \in matching :
                      get(CallSessions[j], "NAME") = get(CallSessions[i], "NAME")
                          => j <= i)
                  => WorkflowSessions.items[get(CallSessions[i], "NAME")] =
                         SessionData(CallSessions[i], call.mappings, id_gen)

\* A workflow whose first session matches no mapping and whose second does,
\* called with two mapping elements of one name.
C9_Witness ==
    /\ call.op = "workflow_graph"
    /\ CallSessions = <<Session("s1", "m9"), Session("s2", "m1")>>
    /\ Len(call.mappings) = 2
    /\ get(call.mappings[1], "NAME") = "m1"
    /\ get(call.mappings[2], "NAME") = "m1"
    /\ call.mappings[1] # call.mappings[2]
    /\ DOMAIN WorkflowSessions.items = {"s2"}
    /\ WorkflowSessions.items["s2"] =
           mapping_graph(call.mappings[1], id_gen).data

\* C10 as stated: mapping_graph returns {mappingName: transforms} holding,
\* for every TRANSFORMATION child and every TRANSFORMFIELD of it, the record
\* {id: registered id} at transforms[transformName][fieldName], also when
\* several TRANSFORMATION children carry one name, and an instance-type map
\* giving every INSTANCE child's name its TYPE as written.
C10_MappingGraph ==
    (call.op = "mapping_graph" /\ call.elem # NoElement) =>
        LET ts == findall(call.elem, "TRANSFORMATION")
            is == findall(call.elem, "INSTANCE")
            transforms == call.data.items[get(call.elem, "NAME")]
        IN  /\ DOMAIN call.data.items = {get(call.elem, "NAME")}
            /\ \A i \in 1..Len(ts) :
                  LET fs == findall(ts[i], "TRANSFORMFIELD")
                      t == get(ts[i], "NAME")
                  IN  /\ t \in DOMAIN transforms.items
                      /\ \A k \in 1..Len(fs) :
                            LET f == get(fs[k], "NAME")
                            IN  /\ f \in DOMAIN transforms.items[t].items
                                /\ transforms.items[t].items[f] =
                                     PyDict("id" :> PyInt(
                                       id_gen.id_map[<<"TRANSFORMFIELD", t, f>>]))
            /\ \A i \in 1..Len(is) :
                  /\ get(is[i], "NAME") \in DOMAIN call.types.items
                  /\ call.types.items[get(is[i], "NAME")] =
                         PyAttr(get(is[i], "TYPE"))

-----------------------------------------------------------------------------
(* Properties of a parse_xml run, under Spec *)

DocMappings ==
    IF doc.status = "ok" THEN findall_descendants(doc.root, "MAPPING") ELSE <<>>

DocTables ==
    IF doc.status = "ok" THEN all_source_target(doc.root) ELSE <<>>

\* The mapping declares the instance with this TYPE.
DeclaredAs(mapping, instance, type) ==
    \E i \in Range(findall(mapping, "INSTANCE")) :
        get(i, "NAME") = instance /\ get(i, "TYPE") = type

\* parse_xml has returned after running its three loops to their ends.
Completed == pc = "done" /\ raised = "none" /\ logged = "none"

\* C1 as stated: in the Lineage a full run returns, every connector from an
\* instance declared SOURCE naming a registered source field to an instance
\* declared TRANSFORMATION naming a registered transform field has its edge
\* [sourceFieldId, transformFieldId]; the example document of the
\* specification gives exactly [[1, 3]].
C1_SourceToTransformEdge ==
    Completed =>
        /\ \A m \in Range(DocMappings) :
              \A c \in Range(findall(m, "CONNECTOR")) :
                 LET from == <<"SOURCE", get(c, "FROMINSTANCE"),
                               get(c, "FROMFIELD")>>
                     to == <<"TRANSFORMFIELD", get(c, "TOINSTANCE"),
                             get(c, "TOFIELD")>>
                 IN  ( /\ DeclaredAs(m, get(c, "FROMINSTANCE"), "SOURCE")
                       /\ DeclaredAs(m, get(c, "TOINSTANCE"), "TRANSFORMATION")
                       /\ from \in DOMAIN id_gen.id_map
                       /\ to \in DOMAIN id_gen.id_map )
                     => <<id_gen.id_map[from], id_gen.id_map[to]>>
                            \in Range(returned.lineage)
        /\ doc = ExampleDoc => returned.lineage = << <<1, 3>> >>

\* The named fields of the document: kind, location and name of each.
NamedFields ==
    UNION {{[kind |-> t.tag,
             location |-> <<get(t, "DBDNAME"), get(t, "OWNERNAME"),
                            get(t, "NAME")>>,
             container |-> get(t, "NAME"),
             name |-> get(f, "NAME")] :
              f \in {g \in Range(findall(t, IF t.tag = "SOURCE"
                                            THEN "SOURCEFIELD"
                                            ELSE "TARGETFIELD")) :
                       get(g, "NAME") # None}} :
           t \in Range(DocTables)}
    \cup
    UNION {UNION {{[kind |-> "TRANSFORMFIELD",
                    location |-> <<get(m, "NAME"), get(t, "NAME")>>,
                    container |-> get(t, "NAME"),
                    name |-> get(f, "NAME")] :
                     f \in {g \in Range(findall(t, "TRANSFORMFIELD")) :
                              get(g, "NAME") # None}} :
                  t \in Range(findall(m, "TRANSFORMATION"))} :
           m \in Range(DocMappings)}

\* The id the run gave the field: the one its fragment records for it.
FieldId(o) == id_gen.id_map[<<o.kind, o.container, o.name>>]

\* C5 as stated: two named fields of a run that differ in kind, in name or
\* in any component of their location never have the same id.
C5_CollisionFree ==
    Completed =>
        \A o1, o2 \in NamedFields : o1 # o2 => FieldId(o1) # FieldId(o2)

RECURSIVE KeyPaths(_)
\* The key paths of a nested dict, the empty path included.
KeyPaths(v) ==
    IF v.type # "dict" THEN {<<>>}
    ELSE {<<>>} \cup
         UNION {{<<k>> \o p : p \in KeyPaths(v.items[k])} : k \in DOMAIN v.items}

\* C7: every key path of DbObjects and of InformaticaObjects is still there
\* after each later step of the run, and in the outputs returned.
C7_MergeKeepsPaths ==
    [][ /\ KeyPaths(db_objects) \subseteq KeyPaths(db_objects')
        /\ KeyPaths(informatica_objects) \subseteq KeyPaths(informatica_objects')
        /\ (pc' = "done" /\ raised' = "none") =>
              /\ KeyPaths(db_objects) \subseteq KeyPaths(returned'.db_objects)
              /\ KeyPaths(informatica_objects)
                    \subseteq KeyPaths(returned'.informatica_objects) ]_vars

\* A run returned two tables merged under one schema and two mappings
\* merged under one repository.
C7_Witness ==
    /\ Completed
    /\ "DB1" \in DOMAIN returned.db_objects.items
    /\ "dbo" \in DOMAIN returned.db_objects.items["DB1"].items
    /\ DOMAIN returned.db_objects.items["DB1"].items["dbo"].items = {"T1", "T2"}
    /\ "repo" \in DOMAIN returned.informatica_objects.items
    /\ DOMAIN returned.informatica_objects.items["repo"].items = {"m1", "m2"}

NoOutputs ==
    [db_objects |-> EmptyDict, informatica_objects |-> EmptyDict,
     lineage |-> <<>>]

\* C8: no exception leaves parse_xml; it returns its three accumulators as
\* they stand where it stops, and all three are empty when the file is
\* missing, zero-length or malformed.
C8_NeverRaises ==
    /\ raised = "none"
    /\ pc = "done" =>
          /\ returned = [db_objects |-> db_objects,
                         informatica_objects |-> informatica_objects,
                         lineage |-> lineage]
          /\ doc.status # "ok" => returned = NoOutputs
          /\ (doc.status = "ok" /\ DocTables # <<>>) =>
                 returned.db_objects # EmptyDict

\* A run stopped by an exception while it processed its second mapping
\* returned the catalog of the first phase and the first mapping's edge.
C8_Witness ==
    /\ pc = "done"
    /\ logged = "Error"
    /\ idx = 2
    /\ returned.db_objects # EmptyDict
    /\ returned.informatica_objects # EmptyDict
    /\ Len(returned.lineage) = 1

\* The instance-type map parse_xml hands to extract_lineage for a mapping.
PassedTypes(mapping) == mapping_graph(mapping, id_gen).types

\* C11: the Lineage grows only when a MAPPING is processed, the mappings are
\* processed in document order, and each adds, after what is already there,
\* one edge per connector whose two lookups find an id, in the order of its
\* CONNECTOR children and with repeats kept; what is returned is that
\* sequence, so its length is the number of resolved connectors.
C11_LineageInDocumentOrder ==
    [][ LET step == pc = "mappings" /\ idx <= Len(mappings) /\ pc' = "mappings"
        IN  /\ step =>
                  /\ mappings[idx] = DocMappings[idx]
                  /\ idx' = idx + 1
                  /\ lineage' = lineage \o
                        ResolvedEdges(id_gen', PassedTypes(mappings[idx]),
                                      get(mappings[idx], "NAME"),
                                      findall(mappings[idx], "CONNECTOR"))
            /\ ~step => lineage' = lineage
            /\ (pc' = "done" /\ raised' = "none") =>
                  returned'.lineage = lineage ]_vars

\* A run over two mappings returned four edges: the first mapping's three
\* connectors gave their edges in the order written, the edge of the second
\* connector again for the third, and the second mapping's edge follows.
C11_Witness ==
    /\ Completed
    /\ Len(DocMappings) = 2
    /\ findall(DocMappings[1], "CONNECTOR") =
           <<Connector("SQ", "c2", "SQ", "c1"), Connector("SQ", "c1", "SQ", "c2"),
             Connector("SQ", "c1", "SQ", "c2")>>
    /\ findall(DocMappings[2], "CONNECTOR") =
           <<Connector("SQ", "c1", "EXP", "c1")>>
    /\ returned.lineage = << <<4, 3>>, <<3, 4>>, <<3, 4>>, <<3, 5>> >>

-----------------------------------------------------------------------------
(* Properties of the field loops, under SpecGraph *)

\* The field elements a db_tree or transformation_graph call walks.
CallFields ==
    IF call.op = "db_tree"
    THEN findall(call.elem, IF call.elem.tag = "SOURCE" THEN "SOURCEFIELD"
                            ELSE "TARGETFIELD")
    ELSE findall(call.elem, "TRANSFORMFIELD")

\* The kind the call registers its fields under.
CallKind == IF call.op = "db_tree" THEN call.elem.tag ELSE "TRANSFORMFIELD"

\* The fields map of the fragment the call returned.
CallFieldsMap ==
    IF call.op = "db_tree"
    THEN call.ret.items[get(call.elem, "DBDNAME")]
                 .items[get(call.elem, "OWNERNAME")]
                 .items[get(call.elem, "NAME")]
    ELSE call.ret.items[get(call.elem, "NAME")]

CallUnnamed == {i \in 1..Len(CallFields) : get(CallFields[i], "NAME") = None}

\* C12: when db_tree or transformation_graph walks fields without a NAME,
\* they all have the key (kind, container, absent): the registry holds one id
\* for it, the call allocated as many ids as it met new distinct keys (so
\* at most one for the unnamed fields together), the fields map has one
\* entry per distinct name with the absent key holding that id, and a single
\* unnamed field on a fresh registry gives {absent: {id: 1}}.
C12_UnnamedFieldsShareOneId ==
    (call.op \in {"db_tree", "transformation_graph"} /\ CallUnnamed # {}) =>
        LET container == get(call.elem, "NAME")
            key == <<CallKind, container, None>>
            names == {get(CallFields[i], "NAME") : i \in 1..Len(CallFields)}
            fresh == {n \in names :
                        <<CallKind, container, n>> \notin DOMAIN call.before.id_map}
        IN  /\ key \in DOMAIN id_gen.id_map
            /\ id_gen.counter = call.before.counter + Cardinality(fresh)
            /\ key \in DOMAIN call.before.id_map =>
                  id_gen.id_map[key] = call.before.id_map[key]
            /\ key \notin DOMAIN call.before.id_map =>
                  id_gen.id_map[key] \in
                      (call.before.counter + 1)..id_gen.counter
            /\ DOMAIN CallFieldsMap.items = names
            /\ CallFieldsMap.items[None] =
                   PyDict("id" :> PyInt(id_gen.id_map[key]))
            /\ (call.before = NewIDGenerator /\ Len(CallFields) = 1) =>
                   CallFieldsMap = PyDict(None :> PyDict("id" :> PyInt(1)))

\* db_tree walked a table with two unnamed fields and a named one between
\* them on a registry that held other keys: two ids were allocated.
C12_Witness ==
    /\ call.op = "db_tree"
    /\ Len(CallFields) = 3
    /\ Cardinality(CallUnnamed) = 2
    /\ call.before.counter = 1
    /\ id_gen.counter = 3
    /\ Cardinality(DOMAIN CallFieldsMap.items) = 2

-----------------------------------------------------------------------------
(* Properties of the lookups, under SpecLineage *)

\* C13: get_id_if_exists leaves the counter and the key-to-id map as they
\* were for every key, returns the stored id of a key that is present and
\* None for one that is not; extract_lineage, which only looks up, leaves
\* the generator as it was.
C13_LookupIsPureRead ==
    /\ call.op = "get_id_if_exists" =>
          /\ id_gen = call.before
          /\ call.key \in DOMAIN call.before.id_map =>
                call.ret = PyInt(call.before.id_map[call.key])
          /\ call.key \notin DOMAIN call.before.id_map => call.ret = PyNone
    /\ call.op = "extract_lineage" => id_gen = call.before

\* A key that was never registered was looked up on a generator holding two
\* other keys.
C13_Witness ==
    /\ call.op = "get_id_if_exists"
    /\ call.before.counter = 2
    /\ call.key \notin DOMAIN call.before.id_map
    /\ call.ret = PyNone
    /\ id_gen.counter = 2

-----------------------------------------------------------------------------
(* Merging an addition twice, under SpecMerge *)

\* C14: merging the same addition into the result of a merge leaves that
\* result as it is: merge_dicts(merge_dicts(acc, x), x) = merge_dicts(acc, x).
C14_MergeTwiceIsMergeOnce ==
    call.op = "merge_dicts_again" => call.ret = call.acc

\* Two db_tree fragments that share database, schema and table and differ in
\* their fields were merged, and the second was merged again.
C14_Witness ==
    /\ call.op = "merge_dicts_again"
    /\ "DB1" \in DOMAIN call.first.items
    /\ "DB1" \in DOMAIN call.append.items
    /\ call.first # call.append
    /\ call.acc # call.first
    /\ call.acc # call.append
    /\ \E n \in 1..MaxIds :
          call.acc.items["DB1"].items["dbo"].items["T1"].items["c1"] =
              PyDict("id" :> PyInt(n))

-----------------------------------------------------------------------------
(* Every mapping and workflow reaches the catalog, under Spec *)

DocWorkflows ==
    IF doc.status = "ok" THEN findall_descendants(doc.root, "WORKFLOW") ELSE <<>>

\* C15 as stated: when parse_xml has returned for a document that parses,
\* InformaticaObjects[repoName] holds a key for the name of every MAPPING
\* and of every WORKFLOW of the tree, whatever the instances of the mappings
\* are named and typed.
C15_EveryMappingAndWorkflowFiled ==
    (pc = "done" /\ doc.status = "ok") =>
        \A e \in Range(DocMappings) \cup Range(DocWorkflows) :
            /\ returned # PyNone
            /\ repo_name \in DOMAIN returned.informatica_objects.items
            /\ get(e, "NAME") \in
                  DOMAIN returned.informatica_objects.items[repo_name].items

-----------------------------------------------------------------------------
(* The workflow walk, under Spec *)

RECURSIVE ValueAt(_, _)
\* The value a nested dict holds at a key path.
ValueAt(v, path) ==
    IF path = <<>> THEN v ELSE ValueAt(v.items[Head(path)], Tail(path))

\* The id leaves filed under a session: the paths
\* repo, workflow, session, mapping, transform, field, "id".
SessionLeaves(inf) == {q \in KeyPaths(inf) : Len(q) = 7 /\ q[7] = "id"}

\* C16: no step of the workflow walk changes the IDGenerator or the lineage,
\* so the counter when parse_xml returns is the counter Phase B ended with;
\* every id filed under a session is the id the registry held for that
\* transform field when Phase B ended, the one Phase B filed for the field
\* under the mapping's name.
C16_WorkflowWalkAllocatesNothing ==
    [][ pc = "workflows" =>
          /\ id_gen' = id_gen
          /\ lineage' = lineage
          /\ \A q \in SessionLeaves(informatica_objects') :
                LET key == <<"TRANSFORMFIELD", q[5], q[6]>>
                    filed == <<q[1], q[4], q[5], q[6], "id">>
                IN  /\ key \in DOMAIN id_gen.id_map
                    /\ ValueAt(informatica_objects', q) =
                           PyInt(id_gen.id_map[key])
                    /\ filed \in KeyPaths(informatica_objects)
                    /\ ValueAt(informatica_objects, filed) =
                           ValueAt(informatica_objects', q) ]_vars

\* A run returned a workflow whose session names a mapping of the document:
\* the session's fragment holds the id Phase B gave the transform field, and
\* the registry holds the two table fields and the transform fields only.
C16_Witness ==
    /\ Completed
    /\ Len(DocWorkflows) = 1
    /\ Len(DocMappings) = 2
    /\ SessionLeaves(returned.informatica_objects) # {}
    /\ \E q \in SessionLeaves(returned.informatica_objects) :
          ValueAt(returned.informatica_objects, q) = PyInt(3)
    /\ id_gen.counter = Cardinality(DOMAIN id_gen.id_map)
    /\ id_gen.counter \in 3..5

-----------------------------------------------------------------------------
(* Lineage ids and the catalogs, under Spec *)

\* The ids at the "id" leaves of a catalog.
CatalogIds(catalog) ==
    {ValueAt(catalog, q).value :
        q \in {p \in KeyPaths(catalog) : Len(p) > 0 /\ p[Len(p)] = "id"}}

\* C17 as stated: every id in an edge of the returned Lineage is the id of
\* a leaf of the returned DbObjects or InformaticaObjects.
C17_LineageIdsInCatalogs ==
    (pc = "done" /\ raised = "none") =>
        \A i \in 1..Len(returned.lineage) :
            \A j \in 1..2 :
                returned.lineage[i][j] \in
                    CatalogIds(returned.db_objects)
                    \cup CatalogIds(returned.informatica_objects)

-----------------------------------------------------------------------------
(* The registry a mapping's lineage is resolved against, under Spec *)

\* The registry keys of the fields of the document's SOURCE and TARGET
\* elements.
TableKeys ==
    UNION {{<<t.tag, get(t, "NAME"), get(f, "NAME")>> :
              f \in Range(findall(t, IF t.tag = "SOURCE" THEN "SOURCEFIELD"
                                     ELSE "TARGETFIELD"))} :
           t \in Range(findall_descendants(doc.root, "SOURCE"))
                 \cup Range(findall_descendants(doc.root, "TARGET"))}

\* The registry keys of the transform fields of a sequence of mappings.
TransformKeys(ms) ==
    UNION {UNION {{<<"TRANSFORMFIELD", get(t, "NAME"), get(f, "NAME")>> :
                     f \in Range(findall(t, "TRANSFORMFIELD"))} :
                  t \in Range(findall(m, "TRANSFORMATION"))} :
           m \in Range(ms)}

\* C18: when the k-th mapping is processed the registry holds the fields of
\* every SOURCE and TARGET of the document and the transform fields of the
\* mappings before it, and nothing else; its connectors are looked up in
\* that registry extended by its own transform fields, so a connector with
\* an end only a later mapping registers adds no edge; and no later step
\* changes or inserts into the edges already there.
C18_ResolvedAgainstCurrentRegistry ==
    [][ /\ (pc = "mappings" /\ idx <= Len(mappings)) =>
              LET cs == findall(mappings[idx], "CONNECTOR")
                  name == get(mappings[idx], "NAME")
              IN  /\ TableKeys \subseteq DOMAIN id_gen.id_map
                  /\ DOMAIN id_gen.id_map =
                        TableKeys
                        \cup TransformKeys(SubSeq(DocMappings, 1, idx - 1))
                  /\ DOMAIN id_gen'.id_map =
                        TableKeys \cup TransformKeys(SubSeq(DocMappings, 1, idx))
                  /\ pc' = "mappings" =>
                        Len(lineage') - Len(lineage) =
                            Cardinality({i \in 1..Len(cs) :
                                Resolves(id_gen', PassedTypes(mappings[idx]),
                                         name, cs[i])})
        /\ Len(lineage) <= Len(lineage')
        /\ SubSeq(lineage', 1, Len(lineage)) = lineage ]_vars

\* A run over two mappings: the first has a connector into a transform field
\* that only the second registers, the second has its own connector; the
\* registry holds that field when the run returns and the one edge
\* returned is the second mapping's.
C18_Witness ==
    /\ Completed
    /\ Len(DocMappings) = 2
    /\ findall(DocMappings[1], "CONNECTOR") =
           <<Connector("SQ", "c1", "EXP", "c1")>>
    /\ <<"TRANSFORMFIELD", "EXP", "c1">>
           \notin TransformKeys(<<DocMappings[1]>>)
    /\ <<"TRANSFORMFIELD", "EXP", "c1">>
           \in TransformKeys(<<DocMappings[2]>>)
    /\ Len(findall(DocMappings[2], "CONNECTOR")) = 1
    /\ <<"TRANSFORMFIELD", "EXP", "c1">> \in DOMAIN id_gen.id_map
    /\ Len(returned.lineage) = 1

====
